---- MODULE Spec2Model ----
(***************************************************************************)
(* Decorators for MLModel objects (blog_post/post.md): the MLModelDecorator *)
(* base class, SimplePredictDecorator and PredictionIDDecorator, exercised  *)
(* the way the notebook session exercises them: construct a decorator       *)
(* around an object, read a property, call predict.                         *)
(*                                                                          *)
(* Python objects live in two heaps: objs (model and decorator instances)   *)
(* and classes (pydantic schema classes; create_model allocates a class on  *)
(* every schema read).  Every call threads a record                         *)
(*   st = [classes, uuid, trace]                                            *)
(* through the layers of the chain; trace logs what each layer was called   *)
(* with and what it gave back.  attrs holds the attributes set on the model  *)
(* instance itself (they shadow the class attributes), built the chains     *)
(* that were assembled from a list of decorator specs.                      *)
(***************************************************************************)
EXTENDS Integers, Sequences, FiniteSets, TLC

VARIABLES objs, classes, uuid, issued, result, attrs, built, calls

vars == <<objs, classes, uuid, issued, result, attrs, built, calls>>

\* Bounds of the model.
MaxDecorators == 2
MaxUUID == 2

\* Python's None, the exceptions the code can raise, and a filler for
\* record fields that do not apply.
None == "None"
NoData == [nodata |-> None]
NotAModel == -1

(***************************************************************************)
(* pydantic schema classes                                                  *)
(***************************************************************************)
\* A field of a schema class: (type, default) as create_model takes it.
Field(n, t, req, def, cons) ==
    [name |-> n, type |-> t, required |-> req, default |-> def, constraints |-> cons]

Schema(n, fs, b) == [name |-> n, fields |-> fs, base |-> b]

FieldNames(cls) == {cls.fields[i].name : i \in 1..Len(cls.fields)}

FieldOf(cls, n) == cls.fields[CHOOSE i \in 1..Len(cls.fields) : cls.fields[i].name = n]

\* A redeclared name leaves the inherited field as it is.
SetField_keep(fields, f) ==
    IF \E i \in 1..Len(fields) : fields[i].name = f.name
    THEN fields
    ELSE Append(fields, f)

\* A subclass's fields: the base's fields in order, a redeclared name
\* replacing the inherited field in place, a new name appended.
SetField(fields, f) ==
    IF \E i \in 1..Len(fields) : fields[i].name = f.name
    THEN [i \in 1..Len(fields) |-> IF fields[i].name = f.name THEN f ELSE fields[i]]
    ELSE Append(fields, f)


\* create_model without __base__: the derived class has the new field only.
create_model_nobase(heap, name, field, base) ==
    Append(heap, Schema(name, <<field>>, base))

\* A derivation that adds the field to the base class itself.
create_model_inplace(heap, name, field, base) ==
    Append([heap EXCEPT ![base].fields = SetField(@, field)],
           Schema(name, SetField(heap[base].fields, field), base))

\* create_model(name, <field>=(type, default), __base__=base): a new class
\* on the heap; the class just allocated is the last one.
create_model(heap, name, field, base) ==
    Append(heap, Schema(name, SetField(heap[base].fields, field), base))

\* The two fields PredictionIDDecorator adds.
InputIdField == Field("prediction_id", "Optional[str]", FALSE, None, "")
OutputIdField == Field("prediction_id", "str", TRUE, None, "")

AllowsNone(f) == f.type = "Optional[str]"

\* cls(**kwargs): pydantic validation of the keyword arguments.
ValidKwargs(cls, kwargs) ==
    \A i \in 1..Len(cls.fields) :
        LET f == cls.fields[i] IN
        IF f.name \in DOMAIN kwargs
        THEN kwargs[f.name] # None \/ AllowsNone(f)
        ELSE ~f.required

Instantiate(cls, kwargs) ==
    [n \in FieldNames(cls) |->
        IF n \in DOMAIN kwargs THEN kwargs[n] ELSE FieldOf(cls, n).default]

(***************************************************************************)
(* The wrapped components: IrisModelMock of the post, and a second MLModel  *)
(* whose output depends on its input and which rejects one input.          *)
(***************************************************************************)
Models == {"IrisModelMock", "ScenarioModel"}

Decorators == {"MLModelDecorator", "SimplePredictDecorator", "PredictionIDDecorator"}

Properties ==
    {"display_name", "qualified_name", "description", "version",
     "input_schema", "output_schema"}

ModelInput ==
    Schema("ModelInput",
           <<Field("sepal_length", "float", TRUE, None, "gt=5.0,lt=8.0"),
             Field("sepal_width", "float", TRUE, None, "gt=2.0,lt=6.0"),
             Field("petal_length", "float", TRUE, None, "gt=1.0,lt=6.8"),
             Field("petal_width", "float", TRUE, None, "gt=0.0,lt=3.0")>>, 0)

ModelOutput == Schema("ModelOutput", <<Field("species", "Species", TRUE, None, "")>>, 0)

ScenarioInput == Schema("ScenarioInput", <<Field("a", "int", TRUE, None, "")>>, 0)

ScenarioOutput == Schema("ScenarioOutput", <<Field("b", "int", TRUE, None, "")>>, 0)

\* The schema classes a model class declares: input at 1, output at 2.
ModelClasses(kind) ==
    CASE kind = "IrisModelMock" -> <<ModelInput, ModelOutput>>
      [] kind = "ScenarioModel" -> <<ScenarioInput, ScenarioOutput>>

NumModelClasses == 2

\* The class attributes of a model class.
ModelAttr(kind, prop) ==
    CASE prop = "input_schema" -> 1
      [] prop = "output_schema" -> 2
      [] kind = "IrisModelMock" /\ prop = "display_name" -> "Iris Model"
      [] kind = "IrisModelMock" /\ prop = "qualified_name" -> "iris_model"
      [] kind = "IrisModelMock" /\ prop = "description" ->
            "A model to predict the species of a flower based on its measurements."
      [] kind = "IrisModelMock" /\ prop = "version" -> "1.0.0"
      [] kind = "ScenarioModel" /\ prop = "display_name" -> "Scenario Model"
      [] kind = "ScenarioModel" /\ prop = "qualified_name" -> "scenario_model"
      [] kind = "ScenarioModel" /\ prop = "description" -> "Doubles a."
      [] kind = "ScenarioModel" /\ prop = "version" -> "0.1.0"

\* Valid instances of a model's input schema.
ModelInputs(kind) ==
    CASE kind = "IrisModelMock" ->
            {[sepal_length |-> "5.1", sepal_width |-> "2.2",
              petal_length |-> "1.2", petal_width |-> "1.3"]}
      [] kind = "ScenarioModel" -> {[a |-> "5"], [a |-> "7"], [a |-> "0"]}

\* predict of a model class: what it returns, or the exception it raises.
ModelPredict(kind, data) ==
    CASE kind = "IrisModelMock" ->
            [status |-> "return", exc |-> "", out |-> [species |-> "Iris setosa"]]
      [] kind = "ScenarioModel" ->
            IF data.a = "0"
            THEN [status |-> "raise", exc |-> "ValueError", out |-> NoData]
            ELSE [status |-> "return", exc |-> "",
                  out |-> [b |-> IF data.a = "5" THEN "10" ELSE "14"]]

\* Attribute lookup on the model instance: an attribute set on the instance
\* shadows the class attribute.
ModelGet(kind, prop) ==
    IF prop \in DOMAIN attrs /\ attrs[prop] # None THEN attrs[prop]
    ELSE ModelAttr(kind, prop)

(***************************************************************************)
(* Call records                                                             *)
(***************************************************************************)
Event(o, ev, data, val, exc) ==
    [obj |-> o, ev |-> ev, data |-> data, val |-> val, exc |-> exc]

Log(st, e) == [st EXCEPT !.trace = Append(@, e)]

\* A property read at layer o ends: it returns val, or raises exc.
GetReturn(st, o, prop, val) ==
    [st |-> Log(st, Event(o, "get", prop, val, "")),
     status |-> "return", exc |-> "", val |-> val]

GetRaise(st, o, prop, exc) ==
    [st |-> Log(st, Event(o, "get", prop, None, exc)),
     status |-> "raise", exc |-> exc, val |-> None]

\* predict at layer o is entered, returns out, or raises exc.
Enter(st, o, data) == Log(st, Event(o, "call", data, None, ""))

Return(st, o, out) ==
    [st |-> Log(st, Event(o, "return", NoData, out, "")),
     status |-> "return", exc |-> "", out |-> out]

Raise(st, o, exc) ==
    [st |-> Log(st, Event(o, "raise", NoData, None, exc)),
     status |-> "raise", exc |-> exc, out |-> NoData]

IsModel(o) == objs[o].kind \in Models

Bound(o) == objs[o].model # 0

(***************************************************************************)
(* Property reads                                                           *)
(***************************************************************************)
RECURSIVE getattr(_, _, _)

\* The property answers with the decorator's own class name.
MLModelDecorator_get_own(st, o, prop) ==
    IF ~Bound(o) THEN GetRaise(st, o, prop, "AttributeError")
    ELSE LET r == getattr(st, objs[o].model, prop) IN
         IF r.status = "raise" THEN GetRaise(r.st, o, prop, r.exc)
         ELSE GetReturn(r.st, o, prop, objs[o].kind)

\* A guard that answers None when no model is set.
MLModelDecorator_get_unbound_none(st, o, prop) ==
    IF ~Bound(o) THEN GetReturn(st, o, prop, None)
    ELSE LET r == getattr(st, objs[o].model, prop) IN
         IF r.status = "raise" THEN GetRaise(r.st, o, prop, r.exc)
         ELSE GetReturn(r.st, o, prop, r.val)

\* The values of the model are kept from the time the decorator was built
\* around it: the values the model class declares.
MLModelDecorator_get_cached(st, o, prop) ==
    IF ~Bound(o) THEN GetRaise(st, o, prop, "AttributeError")
    ELSE LET r == getattr(st, objs[o].model, prop) IN
         IF r.status = "raise" THEN GetRaise(r.st, o, prop, r.exc)
         ELSE GetReturn(r.st, o, prop,
                        IF IsModel(objs[o].model)
                        THEN ModelAttr(objs[objs[o].model].kind, prop) ELSE r.val)

\* MLModelDecorator: each of the six properties reads the same property of
\* self.__dict__["_model"]; on an unbound decorator that is None.<prop>.
MLModelDecorator_get(st, o, prop) ==
    IF ~Bound(o) THEN GetRaise(st, o, prop, "AttributeError")
    ELSE LET r == getattr(st, objs[o].model, prop) IN
         IF r.status = "raise" THEN GetRaise(r.st, o, prop, r.exc)
         ELSE GetReturn(r.st, o, prop, r.val)

decorator_description ==
    " This model also has an optional input called 'prediction_id' that accepts an UUID string to uniquely identify the prediction returned. If the prediction id is not provided, a UUID is generated and returned in a field called 'prediction_id' in the model output."

\* The clause alone, in place of the wrapped description.
PredictionIDDecorator_description_replace(st, o) ==
    IF ~Bound(o) THEN GetRaise(st, o, "description", "AttributeError")
    ELSE LET r == getattr(st, objs[o].model, "description") IN
         IF r.status = "raise" THEN GetRaise(r.st, o, "description", r.exc)
         ELSE GetReturn(r.st, o, "description", decorator_description)

\* PredictionIDDecorator.description
PredictionIDDecorator_description(st, o) ==
    IF ~Bound(o) THEN GetRaise(st, o, "description", "AttributeError")
    ELSE LET r == getattr(st, objs[o].model, "description") IN
         IF r.status = "raise" THEN GetRaise(r.st, o, "description", r.exc)
         ELSE GetReturn(r.st, o, "description", r.val \o decorator_description)


\* The derived class is given a name of its own.
PredictionIDDecorator_schema_renamed(st, o, prop, field) ==
    IF ~Bound(o) THEN GetRaise(st, o, prop, "AttributeError")
    ELSE LET r == getattr(st, objs[o].model, prop) IN
         IF r.status = "raise" THEN GetRaise(r.st, o, prop, r.exc)
         ELSE LET heap == create_model(r.st.classes, "PredictionIDSchema", field, r.val)
              IN GetReturn([r.st EXCEPT !.classes = heap], o, prop, Len(heap))

\* Each derived class is named after the number of classes made so far.
PredictionIDDecorator_schema_numbered(st, o, prop, field) ==
    IF ~Bound(o) THEN GetRaise(st, o, prop, "AttributeError")
    ELSE LET r == getattr(st, objs[o].model, prop) IN
         IF r.status = "raise" THEN GetRaise(r.st, o, prop, r.exc)
         ELSE LET heap == create_model(r.st.classes,
                                       r.st.classes[r.val].name \o ToString(Len(r.st.classes)),
                                       field, r.val)
              IN GetReturn([r.st EXCEPT !.classes = heap], o, prop, Len(heap))

\* PredictionIDDecorator.input_schema and .output_schema: the wrapped
\* schema is read, and a subclass of it with the added field is created
\* under the wrapped schema's name.
PredictionIDDecorator_schema(st, o, prop, field) ==
    IF ~Bound(o) THEN GetRaise(st, o, prop, "AttributeError")
    ELSE LET r == getattr(st, objs[o].model, prop) IN
         IF r.status = "raise" THEN GetRaise(r.st, o, prop, r.exc)
         ELSE LET heap == create_model(r.st.classes, r.st.classes[r.val].name,
                                       field, r.val)
              IN GetReturn([r.st EXCEPT !.classes = heap], o, prop, Len(heap))


\* The input field declared like the output field: (str, ...).
PredictionIDDecorator_input_schema_required(st, o) ==
    PredictionIDDecorator_schema(st, o, "input_schema", OutputIdField)

PredictionIDDecorator_input_schema(st, o) ==
    PredictionIDDecorator_schema(st, o, "input_schema", InputIdField)

PredictionIDDecorator_output_schema(st, o) ==
    PredictionIDDecorator_schema(st, o, "output_schema", OutputIdField)

getattr(st, o, prop) ==
    CASE IsModel(o) -> GetReturn(st, o, prop, ModelGet(objs[o].kind, prop))
      [] objs[o].kind = "PredictionIDDecorator" /\ prop = "description" ->
            PredictionIDDecorator_description(st, o)
      [] objs[o].kind = "PredictionIDDecorator" /\ prop = "input_schema" ->
            PredictionIDDecorator_input_schema(st, o)
      [] objs[o].kind = "PredictionIDDecorator" /\ prop = "output_schema" ->
            PredictionIDDecorator_output_schema(st, o)
      [] OTHER -> MLModelDecorator_get(st, o, prop)

(***************************************************************************)
(* predict                                                                  *)
(***************************************************************************)
RECURSIVE predict(_, _, _)


\* An identifier drawn once, when the class is defined.
uuid4_once(n) == "uuid-1"

\* str(uuid4()): the n-th identifier drawn.
uuid4(n) == "uuid-" \o ToString(n)


\* predict without its return statement: the wrapped result is dropped.
MLModelDecorator_predict_noreturn(st, o, data) ==
    LET s1 == Enter(st, o, data) IN
    IF ~Bound(o) THEN Raise(s1, o, "AttributeError")
    ELSE LET r == predict(s1, objs[o].model, data) IN
         IF r.status = "raise" THEN Raise(r.st, o, r.exc)
         ELSE Return(r.st, o, NoData)

\* try: ... except Exception: return None
MLModelDecorator_predict_swallow(st, o, data) ==
    LET s1 == Enter(st, o, data) IN
    IF ~Bound(o) THEN Raise(s1, o, "AttributeError")
    ELSE LET r == predict(s1, objs[o].model, data) IN
         IF r.status = "raise" THEN Return(r.st, o, NoData)
         ELSE Return(r.st, o, r.out)

\* MLModelDecorator.predict
MLModelDecorator_predict(st, o, data) ==
    LET s1 == Enter(st, o, data) IN
    IF ~Bound(o) THEN Raise(s1, o, "AttributeError")
    ELSE LET r == predict(s1, objs[o].model, data) IN
         IF r.status = "raise" THEN Raise(r.st, o, r.exc)
         ELSE Return(r.st, o, r.out)

\* Both lines printed before the wrapped call is made.
SimplePredictDecorator_predict_early(st, o, data) ==
    LET s0 == Log(Enter(st, o, data), Event(o, "print", NoData, "Executing before prediction.", ""))
        s1 == Log(s0, Event(o, "print", NoData, "Executing after prediction.", "")) IN
    IF ~Bound(o) THEN Raise(s1, o, "AttributeError")
    ELSE LET r == predict(s1, objs[o].model, data) IN
         IF r.status = "raise" THEN Raise(r.st, o, r.exc)
         ELSE Return(r.st, o, r.out)

\* SimplePredictDecorator.predict: prints before and after the wrapped call.
SimplePredictDecorator_predict(st, o, data) ==
    LET s1 == Log(Enter(st, o, data), Event(o, "print", NoData, "Executing before prediction.", "")) IN
    IF ~Bound(o) THEN Raise(s1, o, "AttributeError")
    ELSE LET r == predict(s1, objs[o].model, data) IN
         IF r.status = "raise" THEN Raise(r.st, o, r.exc)
         ELSE Return(Log(r.st, Event(o, "print", NoData, "Executing after prediction.", "")),
                     o, r.out)


\* The attribute name misspelt: no input ever has it.
HasPredictionId_misspelt(data) ==
    "predictionid" \in DOMAIN data /\ data.predictionid # None

\* hasattr(data, "prediction_id") alone: a prediction_id of None counts.
HasPredictionId_present(data) ==
    "prediction_id" \in DOMAIN data

\* hasattr(data, "prediction_id") and data.prediction_id is not None
HasPredictionId(data) ==
    "prediction_id" \in DOMAIN data /\ data.prediction_id # None


\* return prediction, not wrapped_prediction.
WrapPrediction_unwrapped(st, o, cls, prediction_id, prediction) ==
    Return(st, o, prediction)

\* self.output_schema(prediction_id=prediction_id, **prediction.dict()):
\* a keyword given twice is a TypeError, a rejected value a ValidationError.
WrapPrediction(st, o, cls, prediction_id, prediction) ==
    IF "prediction_id" \in DOMAIN prediction THEN Raise(st, o, "TypeError")
    ELSE LET kwargs == ("prediction_id" :> prediction_id) @@ prediction IN
         IF ~ValidKwargs(cls, kwargs) THEN Raise(st, o, "ValidationError")
         ELSE Return(st, o, Instantiate(cls, kwargs))

\* A failure of the wrapped predict is answered with the identifier alone.
PredictionIDDecorator_predict_swallow(st, o, data) ==
    LET s1 == Enter(st, o, data)
        s2 == IF HasPredictionId(data) THEN s1
              ELSE Log([s1 EXCEPT !.uuid = @ + 1],
                       Event(o, "uuid4", NoData, uuid4(s1.uuid + 1), ""))
        prediction_id == IF HasPredictionId(data) THEN data.prediction_id
                         ELSE uuid4(s1.uuid + 1)
    IN IF ~Bound(o) THEN Raise(s2, o, "AttributeError")
       ELSE LET r == predict(s2, objs[o].model, data) IN
            IF r.status = "raise"
            THEN Return(r.st, o, [prediction_id |-> prediction_id])
            ELSE LET g == getattr(r.st, o, "output_schema") IN
                 IF g.status = "raise" THEN Raise(g.st, o, g.exc)
                 ELSE WrapPrediction(g.st, o, g.st.classes[g.val],
                                     prediction_id, r.out)

\* The prediction_id is taken off the input before it is passed on.
PredictionIDDecorator_predict_strip(st, o, data) ==
    LET s1 == Enter(st, o, data)
        s2 == IF HasPredictionId(data) THEN s1
              ELSE Log([s1 EXCEPT !.uuid = @ + 1],
                       Event(o, "uuid4", NoData, uuid4(s1.uuid + 1), ""))
        prediction_id == IF HasPredictionId(data) THEN data.prediction_id
                         ELSE uuid4(s1.uuid + 1)
        stripped == [k \in DOMAIN data \ {"prediction_id"} |-> data[k]]
    IN IF ~Bound(o) THEN Raise(s2, o, "AttributeError")
       ELSE LET r == predict(s2, objs[o].model, stripped) IN
            IF r.status = "raise" THEN Raise(r.st, o, r.exc)
            ELSE LET g == getattr(r.st, o, "output_schema") IN
                 IF g.status = "raise" THEN Raise(g.st, o, g.exc)
                 ELSE WrapPrediction(g.st, o, g.st.classes[g.val],
                                     prediction_id, r.out)

\* PredictionIDDecorator.predict
PredictionIDDecorator_predict(st, o, data) ==
    LET s1 == Enter(st, o, data)
        s2 == IF HasPredictionId(data) THEN s1
              ELSE Log([s1 EXCEPT !.uuid = @ + 1],
                       Event(o, "uuid4", NoData, uuid4(s1.uuid + 1), ""))
        prediction_id == IF HasPredictionId(data) THEN data.prediction_id
                         ELSE uuid4(s1.uuid + 1)
    IN IF ~Bound(o) THEN Raise(s2, o, "AttributeError")
       ELSE LET r == predict(s2, objs[o].model, data) IN
            IF r.status = "raise" THEN Raise(r.st, o, r.exc)
            ELSE LET g == getattr(r.st, o, "output_schema") IN
                 IF g.status = "raise" THEN Raise(g.st, o, g.exc)
                 ELSE WrapPrediction(g.st, o, g.st.classes[g.val],
                                     prediction_id, r.out)

predict(st, o, data) ==
    CASE IsModel(o) ->
            LET s1 == Enter(st, o, data)
                r == ModelPredict(objs[o].kind, data)
            IN IF r.status = "raise" THEN Raise(s1, o, r.exc) ELSE Return(s1, o, r.out)
      [] objs[o].kind = "PredictionIDDecorator" -> PredictionIDDecorator_predict(st, o, data)
      [] objs[o].kind = "SimplePredictDecorator" -> SimplePredictDecorator_predict(st, o, data)
      [] OTHER -> MLModelDecorator_predict(st, o, data)

(***************************************************************************)
(* The session                                                              *)
(***************************************************************************)
\* The schema classes still referenced when an operation starts: those of
\* the model class.  Classes derived by an earlier read are garbage.
Live(heap) == SubSeq(heap, 1, NumModelClasses)

Start == [classes |-> Live(classes), uuid |-> uuid, trace |-> <<>>]

\* The threads that call predict, and the frame of a thread that is not in
\* a call: the locals of PredictionIDDecorator.predict, and how it ended.
Callers == {"t1", "t2"}

Idle ==
    [pc |-> "idle", data |-> NoData, prediction_id |-> None, prediction |-> NoData,
     status |-> "", exc |-> "", out |-> NoData]

Result(op, o, prop, data, status, exc, val, out, trace) ==
    [op |-> op, obj |-> o, prop |-> prop, data |-> data, status |-> status,
     exc |-> exc, val |-> val, out |-> out, trace |-> trace]

Init ==
    /\ \E kind \in Models :
          /\ objs = <<[kind |-> kind, model |-> 0, configuration |-> <<>>]>>
          /\ classes = ModelClasses(kind)
    /\ uuid = 0
    /\ issued = <<>>
    /\ result = Result("none", 0, "", NoData, "return", "", None, NoData, <<>>)
    /\ attrs = [version |-> None]
    /\ built = <<>>
    /\ calls = [c \in Callers |-> Idle]

\* The decorated model the session works with: the object built last.
Outermost == Len(objs)

Configurations == {<<>>, <<"option">>}

\* __init__ without the isinstance check.
MLModelDecorator_init_unchecked(kind, model, kwargs) ==
    [status |-> "return", exc |-> "",
     self |-> [kind |-> kind, model |-> model, configuration |-> kwargs]]

\* An object that is not an MLModel is replaced by None.
MLModelDecorator_init_none(kind, model, kwargs) ==
    [status |-> "return", exc |-> "",
     self |-> [kind |-> kind, model |-> IF model = NotAModel THEN 0 ELSE model,
               configuration |-> kwargs]]

\* __init__ without the keyword arguments: no configuration is kept.
MLModelDecorator_init_noconfig(kind, model, kwargs) ==
    IF model # 0 /\ model = NotAModel
    THEN [status |-> "raise", exc |-> "ValueError", self |-> NoData]
    ELSE [status |-> "return", exc |-> "",
          self |-> [kind |-> kind, model |-> model, configuration |-> <<>>]]

\* MLModelDecorator.__init__(model, **kwargs): raises, or leaves self with
\* _model and _configuration set.
MLModelDecorator_init(kind, model, kwargs) ==
    IF model # 0 /\ model = NotAModel
    THEN [status |-> "raise", exc |-> "ValueError", self |-> NoData]
    ELSE [status |-> "return", exc |-> "",
          self |-> [kind |-> kind, model |-> model, configuration |-> kwargs]]

\* The keyword arguments the session passes: none to the decorators the
\* post builds with the model alone, any of Configurations to the base class.
Kwargs(kind) == IF kind = "MLModelDecorator" THEN Configurations ELSE {<<>>}

\* decorator = <Decorator>(model, **kwargs)
Construct ==
    \E kind \in Decorators, model \in {NotAModel, 0, Outermost} :
        \E kwargs \in Kwargs(kind) :
            LET r == MLModelDecorator_init(kind, model, kwargs) IN
            /\ r.status = "return" => Len(objs) < 1 + MaxDecorators
            /\ objs' = IF r.status = "return" THEN Append(objs, r.self) ELSE objs
            /\ result' = Result("construct",
                                IF r.status = "return" THEN Len(objs) + 1 ELSE 0, kind,
                                [model |-> model, kwargs |-> kwargs],
                                r.status, r.exc, None, NoData, <<>>)
            /\ classes' = Live(classes)
            /\ UNCHANGED <<uuid, issued, attrs, built, calls>>

\* The second phase of a two-phase construction: __init__ runs again on
\* the decorator that was built without a model, now with one.
Attach ==
    LET o == Outermost IN
    /\ ~IsModel(o)
    /\ ~Bound(o)
    /\ \E model \in {NotAModel, o - 1, o} :
          \E kwargs \in Kwargs(objs[o].kind) :
              LET r == MLModelDecorator_init(objs[o].kind, model, kwargs) IN
              /\ objs' = IF r.status = "return" THEN [objs EXCEPT ![o] = r.self]
                         ELSE objs
              /\ result' = Result("attach", o, objs[o].kind,
                                  [model |-> model, kwargs |-> kwargs],
                                  r.status, r.exc, None, NoData, <<>>)
    /\ classes' = Live(classes)
    /\ UNCHANGED <<uuid, issued, attrs, built, calls>>

\* The values the session assigns to the model instance's version; None
\* stands for deleting the instance attribute again.
Versions == {None, "1.0.1"}

\* model.version = v
SetAttr ==
    \E v \in Versions :
        /\ v # attrs.version
        /\ attrs' = [attrs EXCEPT !.version = v]
        /\ result' = Result("setattr", 1, "version", NoData, "return", "", v, NoData, <<>>)
        /\ classes' = Live(classes)
        /\ UNCHANGED <<objs, uuid, issued, built, calls>>

\* Following the wrapped references from o, at least one step and at most
\* n, leads to t.
RECURSIVE Reaches(_, _, _)
Reaches(o, t, n) ==
    IF n = 0 \/ o <= 0 THEN FALSE
    ELSE IF IsModel(o) THEN FALSE
    ELSE objs[o].model = t \/ Reaches(objs[o].model, t, n - 1)

\* A call on o never reaches a model: some layer on the way wraps itself,
\* and Python gives up with RecursionError.
Recurses(o) ==
    \E m \in 1..Len(objs) :
        /\ m = o \/ Reaches(o, m, Len(objs))
        /\ Reaches(m, m, Len(objs))

ReadProperty ==
    IF Recurses(Outermost)
    THEN /\ \E prop \in Properties :
               result' = Result("get", Outermost, prop, NoData, "raise", "RecursionError",
                                None, NoData, <<>>)
         /\ classes' = Live(classes)
         /\ UNCHANGED <<objs, uuid, issued, attrs, built, calls>>
    ELSE \E prop \in Properties :
             LET r == getattr(Start, Outermost, prop) IN
             /\ result' = Result("get", Outermost, prop, NoData, r.status, r.exc, r.val,
                                 NoData, r.st.trace)
             /\ classes' = r.st.classes
             /\ UNCHANGED <<objs, uuid, issued, attrs, built, calls>>

\* The inputs a caller may pass: a valid instance of the model's input
\* schema, as it is or with a prediction_id (None, a string of the
\* caller's, or the identifier the previous call returned).
CallerIds ==
    {None, "asdf-1234-asdf-1234"} \cup
    (IF result.op = "predict" /\ result.status = "return"
        /\ "prediction_id" \in DOMAIN result.out
     THEN {result.out.prediction_id} ELSE {})

PredictInputs ==
    LET plain == ModelInputs(objs[1].kind) IN
    plain \cup {("prediction_id" :> id) @@ d : d \in plain, id \in CallerIds}

\* The identifiers the PredictionIDDecorator layers of one call generated
\* and returned, in the order they were returned.
RECURSIVE Issued(_)
Issued(trace) ==
    IF trace = <<>> THEN <<>>
    ELSE LET e == trace[Len(trace)]
             rest == Issued(SubSeq(trace, 1, Len(trace) - 1))
         IN IF /\ e.ev = "return"
               /\ objs[e.obj].kind = "PredictionIDDecorator"
               /\ "prediction_id" \in DOMAIN e.val
               /\ \E j \in 1..Len(trace) :
                     trace[j].ev = "uuid4" /\ trace[j].obj = e.obj
            THEN Append(rest, e.val.prediction_id)
            ELSE rest

\* A predict that keeps a note of the call on the decorator it was called on.
Predict_memo ==
    IF Recurses(Outermost)
    THEN /\ \E data \in PredictInputs :
               result' = Result("predict", Outermost, "", data, "raise", "RecursionError",
                                None, NoData, <<>>)
         /\ classes' = Live(classes)
         /\ UNCHANGED <<objs, uuid, issued, attrs, built, calls>>
    ELSE \E data \in PredictInputs :
             LET r == predict(Start, Outermost, data) IN
             /\ r.st.uuid <= MaxUUID
             /\ result' = Result("predict", Outermost, "", data, r.status, r.exc, None,
                                 r.out, r.st.trace)
             /\ classes' = r.st.classes
             /\ uuid' = r.st.uuid
             /\ issued' = issued \o Issued(r.st.trace)
             /\ objs' = [objs EXCEPT ![Outermost].configuration = <<"memo">>]
             /\ UNCHANGED <<attrs, built, calls>>

\* decorator.predict(data)
Predict ==
    IF Recurses(Outermost)
    THEN /\ \E data \in PredictInputs :
               result' = Result("predict", Outermost, "", data, "raise", "RecursionError",
                                None, NoData, <<>>)
         /\ classes' = Live(classes)
         /\ UNCHANGED <<objs, uuid, issued, attrs, built, calls>>
    ELSE \E data \in PredictInputs :
             LET r == predict(Start, Outermost, data) IN
             /\ r.st.uuid <= MaxUUID
             /\ result' = Result("predict", Outermost, "", data, r.status, r.exc, None,
                                 r.out, r.st.trace)
             /\ classes' = r.st.classes
             /\ uuid' = r.st.uuid
             /\ issued' = issued \o Issued(r.st.trace)
             /\ UNCHANGED <<objs, attrs, built, calls>>

Next == Construct \/ ReadProperty \/ Predict

Spec == Init /\ [][Next]_vars

\* The session that also assigns to the model's attributes between reads.
ReadNext == Construct \/ SetAttr \/ ReadProperty

ReadSpec == Init /\ [][ReadNext]_vars

\* The session that builds decorators in two phases.
AttachNext == Construct \/ Attach \/ ReadProperty \/ Predict

AttachSpec == Init /\ [][AttachNext]_vars

(***************************************************************************)
(* Chain assembly: the service builds the decorators its configuration      *)
(* lists around the model instance (the "decorators" key of a model's       *)
(* entry).  The loader itself is part of the service package; it is         *)
(* modelled as specified: resolve each reference, fold left to right.       *)
(***************************************************************************)
MaxBuilt == 4
MaxChains == 2

\* The names the loader can resolve, and the class each stands for.
Registry == [ref \in Decorators |-> ref]

\* The specs a configuration may list; the last names no class.
DecoratorSpecs ==
    {[reference |-> "PredictionIDDecorator", configuration |-> <<>>],
     [reference |-> "MLModelDecorator", configuration |-> <<"option">>],
     [reference |-> "NoSuchDecorator", configuration |-> <<>>]}

SpecLists == UNION {[1..n -> DecoratorSpecs] : n \in 0..MaxDecorators}

RECURSIVE build_reversed(_, _, _)
\* The fold taken from the right: the last-listed decorator wraps the base.
build_reversed(heap, current, specs) ==
    IF specs = <<>> THEN [status |-> "return", exc |-> "", heap |-> heap, obj |-> current]
    ELSE LET sp == specs[Len(specs)] IN
         IF sp.reference \notin DOMAIN Registry
         THEN [status |-> "raise", exc |-> "UnresolvableReference", heap |-> heap, obj |-> 0]
         ELSE LET r == MLModelDecorator_init(Registry[sp.reference], current,
                                             sp.configuration) IN
              IF r.status = "raise"
              THEN [status |-> "raise", exc |-> "ConstructionFailure", heap |-> heap,
                    obj |-> 0]
              ELSE build_reversed(Append(heap, r.self), Len(heap) + 1,
                                  SubSeq(specs, 1, Len(specs) - 1))

\* A loader that keeps the chain it built for a list of specs and hands it
\* out again.
build_cached(heap, current, specs) ==
    IF \E k \in 1..Len(built) : built[k].specs = specs /\ built[k].base = current
    THEN [status |-> "return", exc |-> "", heap |-> heap,
          obj |-> built[CHOOSE k \in 1..Len(built) :
                           built[k].specs = specs /\ built[k].base = current].obj]
    ELSE build_reversed(heap, current,
                        [i \in 1..Len(specs) |-> specs[Len(specs) + 1 - i]])

RECURSIVE build(_, _, _)
\* build(baseComponent, specs): current := baseComponent; for each spec,
\* current := construct(reference, wrapped=current, configuration).
build(heap, current, specs) ==
    IF specs = <<>> THEN [status |-> "return", exc |-> "", heap |-> heap, obj |-> current]
    ELSE LET sp == Head(specs) IN
         IF sp.reference \notin DOMAIN Registry
         THEN [status |-> "raise", exc |-> "UnresolvableReference", heap |-> heap, obj |-> 0]
         ELSE LET r == MLModelDecorator_init(Registry[sp.reference], current,
                                             sp.configuration) IN
              IF r.status = "raise"
              THEN [status |-> "raise", exc |-> "ConstructionFailure", heap |-> heap,
                    obj |-> 0]
              ELSE build(Append(heap, r.self), Len(heap) + 1, Tail(specs))

\* The service assembles a chain; the decorators of a failed assembly are
\* dropped with it.
Build ==
    \E base \in {1, NotAModel}, specs \in SpecLists :
        LET r == build(objs, base, specs) IN
        /\ Len(built) < MaxChains
        /\ r.status = "return" => Len(r.heap) <= 1 + MaxBuilt
        /\ objs' = IF r.status = "return" THEN r.heap ELSE objs
        /\ built' = IF r.status = "return"
                    THEN Append(built, [base |-> base, specs |-> specs, obj |-> r.obj])
                    ELSE built
        /\ result' = Result("build", r.obj, "", [base |-> base, specs |-> specs],
                            r.status, r.exc, None, NoData, <<>>)
        /\ classes' = Live(classes)
        /\ UNCHANGED <<uuid, issued, attrs, calls>>

\* The service: chains are assembled, and the properties of the outermost
\* decorator are read for the documentation of the endpoint.
BuildNext == Build \/ ReadProperty

BuildSpec == Init /\ [][BuildNext]_vars

(***************************************************************************)
(* Schema derivation on its own: create_model as the two schema properties  *)
(* call it, applied to the schema classes a wrapped object may declare,     *)
(* among them classes that already have a prediction_id field.              *)
(***************************************************************************)
MaxDerived == 3

\* The fields a wrapped object's schema may declare.
DeclaredFields ==
    {Field("a", "int", TRUE, None, ""),
     Field("prediction_id", "int", TRUE, None, ""),
     InputIdField, OutputIdField}

\* The schema classes a wrapped object may declare: one or two fields of
\* different names.
BaseContracts ==
    {Schema("Contract", fs, 0) :
        fs \in {s \in UNION {[1..n -> DeclaredFields] : n \in 1..2} :
                   \A i, j \in 1..Len(s) : s[i].name = s[j].name => i = j}}

\* The fields PredictionIDDecorator passes to create_model.
Additions == {InputIdField, OutputIdField}

ExtendInit ==
    /\ objs = <<[kind |-> "ScenarioModel", model |-> 0, configuration |-> <<>>]>>
    /\ \E base \in BaseContracts : classes = <<base>>
    /\ uuid = 0
    /\ issued = <<>>
    /\ result = Result("none", 0, "", NoData, "return", "", None, NoData, <<>>)
    /\ attrs = [version |-> None]
    /\ built = <<>>
    /\ calls = [c \in Callers |-> Idle]

\* create_model(base.__name__, prediction_id=<field>, __base__=base)
Extend ==
    \E base \in 1..Len(classes), field \in Additions :
        /\ Len(classes) < 1 + MaxDerived
        /\ classes' = create_model(classes, classes[base].name, field, base)
        /\ result' = Result("extend", base, field.name, field, "return", "",
                            Len(classes) + 1, NoData, <<>>)
        /\ UNCHANGED <<objs, uuid, issued, attrs, built, calls>>

ExtendNext == Extend

ExtendSpec == ExtendInit /\ [][ExtendNext]_vars

(***************************************************************************)
(* Concurrent callers: the threads of the service call predict on one       *)
(* PredictionIDDecorator built around the model.  Each thread runs          *)
(* PredictionIDDecorator.predict statement by statement, with its own       *)
(* locals (data, prediction_id, prediction); the threads interleave         *)
(* between statements.                                                      *)
(***************************************************************************)
ConcurrentInit ==
    /\ \E kind \in Models :
          /\ objs = <<[kind |-> kind, model |-> 0, configuration |-> <<>>],
                      [kind |-> "PredictionIDDecorator", model |-> 1,
                       configuration |-> <<>>]>>
          /\ classes = ModelClasses(kind)
    /\ uuid = 0
    /\ issued = <<>>
    /\ result = Result("none", 0, "", NoData, "return", "", None, NoData, <<>>)
    /\ attrs = [version |-> None]
    /\ built = <<>>
    /\ calls = [c \in Callers |-> Idle]

\* The identifier is read from where the last draw left it, a place all
\* calls share.
LocalPredictionId_shared(c) ==
    IF uuid > 0 THEN uuid4(uuid) ELSE calls[c].prediction_id

\* The local variable prediction_id of thread c's call.
LocalPredictionId(c) == calls[c].prediction_id

\* A thread enters decorator.predict(data).
Invoke ==
    \E c \in Callers, data \in PredictInputs :
        /\ calls[c].pc = "idle"
        /\ calls' = [calls EXCEPT ![c] = [Idle EXCEPT !.pc = "assign", !.data = data]]
        /\ UNCHANGED <<objs, classes, uuid, issued, result, attrs, built>>

\* if hasattr(data, "prediction_id") and ...: prediction_id = data.prediction_id
\* else: prediction_id = str(uuid4())
AssignId ==
    \E c \in Callers :
        /\ calls[c].pc = "assign"
        /\ IF HasPredictionId(calls[c].data)
           THEN /\ calls' = [calls EXCEPT ![c].pc = "call",
                                          ![c].prediction_id = calls[c].data.prediction_id]
                /\ uuid' = uuid
           ELSE /\ uuid < MaxUUID
                /\ uuid' = uuid + 1
                /\ calls' = [calls EXCEPT ![c].pc = "call",
                                          ![c].prediction_id = uuid4(uuid + 1)]
        /\ UNCHANGED <<objs, classes, issued, result, attrs, built>>

\* prediction = self._model.predict(data=data)
CallWrapped ==
    \E c \in Callers :
        /\ calls[c].pc = "call"
        /\ LET r == predict(Start, objs[Outermost].model, calls[c].data) IN
           calls' = IF r.status = "raise"
                    THEN [calls EXCEPT ![c].pc = "done", ![c].status = "raise",
                                       ![c].exc = r.exc]
                    ELSE [calls EXCEPT ![c].pc = "wrap", ![c].prediction = r.out]
        /\ UNCHANGED <<objs, classes, uuid, issued, result, attrs, built>>

\* wrapped_prediction = self.output_schema(prediction_id=prediction_id,
\*                                         **prediction.dict())
\* return wrapped_prediction
Wrap ==
    \E c \in Callers :
        /\ calls[c].pc = "wrap"
        /\ LET g == getattr(Start, Outermost, "output_schema")
               w == IF g.status = "raise" THEN Raise(g.st, Outermost, g.exc)
                    ELSE WrapPrediction(g.st, Outermost, g.st.classes[g.val],
                                        LocalPredictionId(c), calls[c].prediction)
           IN /\ calls' = [calls EXCEPT ![c].pc = "done", ![c].status = w.status,
                                        ![c].exc = w.exc, ![c].out = w.out]
              /\ issued' = IF w.status = "return" /\ ~HasPredictionId(calls[c].data)
                           THEN Append(issued, w.out.prediction_id) ELSE issued
        /\ UNCHANGED <<objs, classes, uuid, result, attrs, built>>

\* The thread takes what its call returned or raised, and is free again.
Collect ==
    \E c \in Callers :
        /\ calls[c].pc = "done"
        /\ calls' = [calls EXCEPT ![c] = Idle]
        /\ UNCHANGED <<objs, classes, uuid, issued, result, attrs, built>>

ConcurrentNext == Invoke \/ AssignId \/ CallWrapped \/ Wrap \/ Collect

ConcurrentSpec == ConcurrentInit /\ [][ConcurrentNext]_vars

(***************************************************************************)
(* Reading the record of the last operation                                 *)
(***************************************************************************)
Trace == result.trace

Idx == 1..Len(Trace)

KindAt(i) == objs[Trace[i].obj].kind

WrappedAt(i) == objs[Trace[i].obj].model

\* Layer o's predict was entered during the last operation.
Called(o) == \E i \in Idx : Trace[i].obj = o /\ Trace[i].ev = "call"

CallOf(o) == Trace[CHOOSE i \in Idx : Trace[i].obj = o /\ Trace[i].ev = "call"]

\* The event that ended layer o's predict: a return or a raise.
EndOf(o) ==
    Trace[CHOOSE i \in Idx : Trace[i].obj = o /\ Trace[i].ev \in {"return", "raise"}]

Generated(o) == {Trace[i].val : i \in {j \in Idx : Trace[j].obj = o /\ Trace[j].ev = "uuid4"}}

Layers(kind) == {o \in 1..Len(objs) : objs[o].kind = kind /\ Bound(o) /\ Called(o)}

\* The property reads of bound decorators of a kind that returned; the
\* read of the wrapped object is the event just before.
Reads(kind, props) ==
    {i \in Idx : /\ Trace[i].ev = "get"
                 /\ Trace[i].data \in props
                 /\ KindAt(i) = kind
                 /\ WrappedAt(i) # 0}

SchemaProperties == {"input_schema", "output_schema"}

(***************************************************************************)
(* C1  Transparency: predict on a bound MLModelDecorator passes its input   *)
(* to the wrapped object and ends exactly as the wrapped predict ended      *)
(* (same returned value, or same exception), and each of the six            *)
(* properties read on it is the value the wrapped object gave for it.       *)
(***************************************************************************)
Transparency ==
    /\ \A o \in Layers("MLModelDecorator") :
          LET m == objs[o].model IN
          /\ Called(m)
          /\ CallOf(m).data = CallOf(o).data
          /\ EndOf(o).ev = EndOf(m).ev
          /\ EndOf(o).exc = EndOf(m).exc
          /\ EndOf(o).val = EndOf(m).val
    /\ \A i \in Reads("MLModelDecorator", Properties) :
          /\ i > 1
          /\ Trace[i - 1].obj = WrappedAt(i)
          /\ Trace[i - 1].ev = "get"
          /\ Trace[i - 1].data = Trace[i].data
          /\ Trace[i].exc = Trace[i - 1].exc
          /\ Trace[i].val = Trace[i - 1].val

TransparencyWitness ==
    /\ result.op = "predict"
    /\ result.status = "return"
    /\ objs[result.obj].kind = "MLModelDecorator"
    /\ Bound(result.obj)
    /\ IsModel(objs[result.obj].model)
    /\ result.out = ModelPredict(objs[1].kind, result.data).out

(***************************************************************************)
(* C2  Identifier round-trip: a PredictionIDDecorator whose input carries a *)
(* prediction_id that is not None generates no identifier, and the output   *)
(* it returns carries the input's prediction_id.                            *)
(***************************************************************************)
IdentifierRoundTrip ==
    \A o \in Layers("PredictionIDDecorator") :
        ("prediction_id" \in DOMAIN CallOf(o).data
            /\ CallOf(o).data.prediction_id # None) =>
           /\ Generated(o) = {}
           /\ EndOf(o).ev = "return" =>
                 EndOf(o).val.prediction_id = CallOf(o).data.prediction_id

\* An identifier that an earlier call generated is fed back and comes out.
IdentifierRoundTripWitness ==
    /\ result.op = "predict"
    /\ result.status = "return"
    /\ objs[result.obj].kind = "PredictionIDDecorator"
    /\ "prediction_id" \in DOMAIN result.data
    /\ \E i \in 1..Len(issued) : result.data.prediction_id = issued[i]
    /\ result.out.prediction_id = result.data.prediction_id
    /\ uuid = 1

(***************************************************************************)
(* C3  Generation: a PredictionIDDecorator whose input has no prediction_id *)
(* (no such field, or None) generates one identifier for the call and       *)
(* returns it, and no two such calls return the same identifier.            *)
(***************************************************************************)
GeneratedIdentifiersDiffer ==
    /\ \A o \in Layers("PredictionIDDecorator") :
          ("prediction_id" \notin DOMAIN CallOf(o).data
              \/ CallOf(o).data.prediction_id = None) =>
             /\ Cardinality(Generated(o)) = 1
             /\ EndOf(o).ev = "return" => EndOf(o).val.prediction_id \in Generated(o)
    /\ \A i, j \in 1..Len(issued) : i # j => issued[i] # issued[j]

GeneratedIdentifiersDifferWitness ==
    /\ Len(issued) = 2
    /\ result.op = "predict"
    /\ result.status = "return"
    /\ "prediction_id" \in DOMAIN result.data
    /\ result.data.prediction_id = None
    /\ result.out.prediction_id = issued[2]

(***************************************************************************)
(* C4  Every output a PredictionIDDecorator returns has a prediction_id     *)
(* that is not None.                                                        *)
(***************************************************************************)
OutputCarriesIdentifier ==
    \A o \in Layers("PredictionIDDecorator") :
        EndOf(o).ev = "return" =>
           /\ "prediction_id" \in DOMAIN EndOf(o).val
           /\ EndOf(o).val.prediction_id # None

OutputCarriesIdentifierWitness ==
    /\ result.op = "predict"
    /\ result.status = "return"
    /\ objs[result.obj].kind = "PredictionIDDecorator"
    /\ "prediction_id" \notin DOMAIN result.data
    /\ result.out.prediction_id = uuid4(uuid)

(***************************************************************************)
(* C5  Whenever the wrapped predict returns, the PredictionIDDecorator      *)
(* returns an output with every field of the wrapped result, with the same  *)
(* value, plus prediction_id and nothing else.                              *)
(***************************************************************************)
OutputExtendsWrappedResult ==
    \A o \in Layers("PredictionIDDecorator") :
        LET m == objs[o].model IN
        (Called(m) /\ EndOf(m).ev = "return") =>
           /\ EndOf(o).ev = "return"
           /\ DOMAIN EndOf(o).val = DOMAIN EndOf(m).val \cup {"prediction_id"}
           /\ \A n \in DOMAIN EndOf(m).val \ {"prediction_id"} :
                 EndOf(o).val[n] = EndOf(m).val[n]

\* The wrapped result collides with the keyword prediction_id: the wrapped
\* object is itself a PredictionIDDecorator.
OutputExtendsWrappedResultFails ==
    /\ result.op = "predict"
    /\ result.exc = "TypeError"
    /\ objs[result.obj].kind = "PredictionIDDecorator"
    /\ EndOf(objs[result.obj].model).ev = "return"

(***************************************************************************)
(* C6  The input schema of a PredictionIDDecorator is the wrapped input     *)
(* schema plus a prediction_id field that is an optional string with        *)
(* default None; its output schema is the wrapped output schema plus a      *)
(* prediction_id field that is a required string.                           *)
(***************************************************************************)
IdentifierContracts ==
    \A i \in Reads("PredictionIDDecorator", SchemaProperties) :
        Trace[i].exc = "" =>
           /\ i > 1
           /\ Trace[i - 1].obj = WrappedAt(i)
           /\ Trace[i - 1].data = Trace[i].data
           /\ LET cls == classes[Trace[i].val]
                  wrapped == classes[Trace[i - 1].val]
                  id == FieldOf(cls, "prediction_id")
                  input == Trace[i].data = "input_schema"
              IN /\ FieldNames(cls) = FieldNames(wrapped) \cup {"prediction_id"}
                 /\ Len(cls.fields) = Cardinality(FieldNames(cls))
                 /\ \A n \in FieldNames(wrapped) \ {"prediction_id"} :
                       FieldOf(cls, n) = FieldOf(wrapped, n)
                 /\ id.type = (IF input THEN "Optional[str]" ELSE "str")
                 /\ id.required = ~input
                 /\ input => id.default = None

IdentifierContractsWitness ==
    /\ result.op = "get"
    /\ result.prop = "input_schema"
    /\ result.status = "return"
    /\ objs[result.obj].kind = "PredictionIDDecorator"
    /\ objs[1].kind = "IrisModelMock"
    /\ Len(classes[result.val].fields) = Len(ModelInput.fields) + 1

(***************************************************************************)
(* C7  Contract superset: a schema read on a layer has every field of the   *)
(* schema any layer beneath it gave for the same property, and every field  *)
(* other than prediction_id has the descriptor it has beneath, whatever the *)
(* depth of the chain.                                                      *)
(***************************************************************************)
SchemaReads(prop) ==
    {i \in Idx : Trace[i].ev = "get" /\ Trace[i].data = prop /\ Trace[i].exc = ""}

ContractSuperset ==
    \A prop \in SchemaProperties :
        \A i, j \in SchemaReads(prop) :
            Trace[j].obj <= Trace[i].obj =>
               LET above == classes[Trace[i].val]
                   beneath == classes[Trace[j].val]
               IN /\ FieldNames(beneath) \subseteq FieldNames(above)
                  /\ \A n \in FieldNames(beneath) \ {"prediction_id"} :
                        FieldOf(above, n) = FieldOf(beneath, n)

\* Two PredictionIDDecorators around IrisModelMock: the schema read on the
\* outer one still has the four fields of ModelInput.
ContractSupersetWitness ==
    /\ result.op = "get"
    /\ result.prop = "input_schema"
    /\ result.status = "return"
    /\ Len(objs) = 3
    /\ objs[1].kind = "IrisModelMock"
    /\ objs[2].kind = "PredictionIDDecorator"
    /\ objs[3].kind = "PredictionIDDecorator"
    /\ Len(Trace) = 3
    /\ FieldNames(ModelInput) \subseteq FieldNames(classes[result.val])

(***************************************************************************)
(* C8  A derived schema has the name of the schema it was derived from, so  *)
(* every input or output schema read through a chain has the name of the    *)
(* model's own schema.                                                      *)
(***************************************************************************)
ContractNameKept ==
    /\ \A prop \in SchemaProperties :
          \A i \in SchemaReads(prop) :
              classes[Trace[i].val].name =
                 ModelClasses(objs[1].kind)[ModelAttr(objs[1].kind, prop)].name
    /\ \A c \in 1..Len(classes) :
          classes[c].base # 0 => classes[c].name = classes[classes[c].base].name

ContractNameKeptWitness ==
    /\ result.op = "get"
    /\ result.prop = "output_schema"
    /\ result.status = "return"
    /\ objs[result.obj].kind = "PredictionIDDecorator"
    /\ objs[objs[result.obj].model].kind = "PredictionIDDecorator"
    /\ classes[result.val].base # 0
    /\ classes[result.val].name = "ModelOutput"

(***************************************************************************)
(* C9  Deriving a schema changes no existing schema: after any reads and    *)
(* predict calls the model's own input and output schemas are the classes   *)
(* the model declared, and a class a further class was derived from has     *)
(* the fields of its own base plus prediction_id only.                      *)
(***************************************************************************)
DerivationIsPure ==
    /\ Live(classes) = ModelClasses(objs[1].kind)
    /\ \A c \in 1..Len(classes) :
          classes[c].base # 0 =>
             /\ classes[c].base < c
             /\ FieldNames(classes[c]) =
                   FieldNames(classes[classes[c].base]) \cup {"prediction_id"}
             /\ Len(classes[c].fields) =
                   Len(classes[classes[c].base].fields)
                   + (IF "prediction_id" \in FieldNames(classes[classes[c].base])
                      THEN 0 ELSE 1)

DerivationIsPureWitness ==
    /\ result.op = "predict"
    /\ result.status = "return"
    /\ objs[result.obj].kind = "PredictionIDDecorator"
    /\ Len(classes) > NumModelClasses
    /\ "prediction_id" \notin FieldNames(classes[2])
    /\ "prediction_id" \in FieldNames(classes[Len(classes)])

(***************************************************************************)
(* C10  Stacking: whenever the model's predict returns, predict on the      *)
(* outermost decorator returns, and what it returns has exactly the fields  *)
(* of the outermost decorator's output schema.                              *)
(***************************************************************************)
StackedPredictReturns ==
    (result.op = "predict" /\ Called(1) /\ EndOf(1).ev = "return") =>
       /\ result.status = "return"
       /\ LET g == getattr(Start, result.obj, "output_schema") IN
          /\ g.status = "return"
          /\ DOMAIN result.out = FieldNames(g.st.classes[g.val])

\* Two stacked PredictionIDDecorators: the outer predict raises TypeError
\* although the model and the inner decorator returned.
StackedPredictRaises ==
    /\ result.op = "predict"
    /\ result.exc = "TypeError"
    /\ objs[1].kind = "IrisModelMock"
    /\ objs[result.obj].kind = "PredictionIDDecorator"
    /\ objs[objs[result.obj].model].kind = "PredictionIDDecorator"
    /\ EndOf(1).ev = "return"

(***************************************************************************)
(* C11  Identity stability: through any chain of decorators that ends at    *)
(* the model, the qualified name, the display name and the version read on  *)
(* the outermost decorator are the model's (none of the decorators          *)
(* overrides them).                                                         *)
(***************************************************************************)
IdentityProperties == {"qualified_name", "display_name", "version"}

\* The chain under o ends at the model.
EndsAtModel(o) == o = 1 \/ Reaches(o, 1, Len(objs))

IdentityStability ==
    (result.op = "get" /\ result.prop \in IdentityProperties /\ EndsAtModel(result.obj)) =>
       /\ result.status = "return"
       /\ result.val = ModelGet(objs[1].kind, result.prop)

IdentityStabilityWitness ==
    /\ result.op = "get"
    /\ result.prop = "qualified_name"
    /\ Len(objs) = 3
    /\ objs[2].kind = "PredictionIDDecorator" /\ objs[2].model = 1
    /\ objs[3].kind = "SimplePredictDecorator" /\ objs[3].model = 2
    /\ result.obj = 3
    /\ result.val = "iris_model"

(***************************************************************************)
(* C12  Fail-fast construction: constructing a decorator around an object   *)
(* that is not an MLModel fails (the ValueError of __init__ is the spec's   *)
(* InvalidWrappedComponent), no decorator is produced and nothing is        *)
(* stored.                                                                  *)
(***************************************************************************)
FailFastConstruction ==
    [][(result'.op = "construct" /\ result'.data.model = NotAModel) =>
          /\ result'.status = "raise"
          /\ result'.exc = "ValueError"
          /\ result'.obj = 0
          /\ objs' = objs]_vars

FailFastConstructionWitness ==
    /\ result.op = "construct"
    /\ result.data.model = NotAModel
    /\ result.data.kwargs = <<"option">>
    /\ result.status = "raise"
    /\ Len(objs) = 2

(***************************************************************************)
(* C13  An unbound decorator: each of the six property reads and predict    *)
(* on a decorator built without a model fails (the AttributeError of        *)
(* None.<member> is the spec's UnboundDecorator), returns no value and      *)
(* calls into no other object.                                              *)
(***************************************************************************)
UnboundDecoratorFails ==
    (result.op \in {"get", "predict"} /\ ~IsModel(result.obj) /\ ~Bound(result.obj)) =>
       /\ result.status = "raise"
       /\ result.exc = "AttributeError"
       /\ result.val = None
       /\ result.out = NoData
       /\ \A i \in Idx : Trace[i].obj = result.obj

UnboundDecoratorFailsWitness ==
    /\ result.op = "get"
    /\ result.prop = "display_name"
    /\ objs[result.obj].kind = "MLModelDecorator"
    /\ ~Bound(result.obj)
    /\ result.exc = "AttributeError"

(***************************************************************************)
(* C14  Properties are read at access time: a read that reaches the model   *)
(* returns the value the model has now, also after the value was changed    *)
(* between reads, and a layer that does not override a property returns     *)
(* what the layer it wraps returned for it during this read, so an override *)
(* further in shows on every layer outside it.                              *)
(***************************************************************************)
Overrides(kind) ==
    IF kind = "PredictionIDDecorator"
    THEN {"description", "input_schema", "output_schema"} ELSE {}

\* The layers from o down to the end of its chain.
RECURSIVE LayersUnder(_, _)
LayersUnder(o, n) ==
    IF n = 0 \/ o <= 0 THEN {}
    ELSE IF IsModel(o) THEN {o}
    ELSE {o} \cup LayersUnder(objs[o].model, n - 1)

ReadsCurrentValue ==
    /\ (result.op = "get" /\ EndsAtModel(result.obj)
           /\ \A l \in LayersUnder(result.obj, Len(objs)) :
                  IsModel(l) \/ result.prop \notin Overrides(objs[l].kind)) =>
          /\ result.status = "return"
          /\ result.val = (IF result.prop = "version" /\ attrs.version # None
                           THEN attrs.version
                           ELSE ModelAttr(objs[1].kind, result.prop))
    /\ \A i \in Idx :
          (/\ Trace[i].ev = "get"
           /\ ~IsModel(Trace[i].obj)
           /\ WrappedAt(i) # 0
           /\ Trace[i].data \notin Overrides(KindAt(i))) =>
             /\ i > 1
             /\ Trace[i - 1].obj = WrappedAt(i)
             /\ Trace[i - 1].data = Trace[i].data
             /\ Trace[i].val = Trace[i - 1].val
             /\ Trace[i].exc = Trace[i - 1].exc

\* The model's version was assigned after the class declared it, and a read
\* through two decorators returns the assigned value.
ReadsCurrentValueWitness ==
    /\ result.op = "get"
    /\ result.prop = "version"
    /\ attrs.version = "1.0.1"
    /\ Len(objs) = 3
    /\ result.obj = 3
    /\ EndsAtModel(3)
    /\ result.val = "1.0.1"
    /\ ModelAttr(objs[1].kind, "version") # "1.0.1"

(***************************************************************************)
(* C15  Failure propagation: when the wrapped predict raises, the predict   *)
(* of the decorator around it raises the same exception and returns         *)
(* nothing, layer by layer up to the caller.                                *)
(***************************************************************************)
FailurePropagates ==
    /\ \A kind \in Decorators :
          \A o \in Layers(kind) :
              LET m == objs[o].model IN
              (Called(m) /\ EndOf(m).ev = "raise") =>
                 /\ EndOf(o).ev = "raise"
                 /\ EndOf(o).exc = EndOf(m).exc
                 /\ EndOf(o).val = None
    /\ (result.op = "predict" /\ Called(1) /\ EndOf(1).ev = "raise") =>
          /\ result.status = "raise"
          /\ result.exc = EndOf(1).exc
          /\ result.out = NoData

FailurePropagatesWitness ==
    /\ result.op = "predict"
    /\ result.exc = "ValueError"
    /\ Len(objs) = 3
    /\ objs[2].kind = "PredictionIDDecorator"
    /\ objs[3].kind = "MLModelDecorator"
    /\ result.obj = 3
    /\ Called(1)
    /\ EndOf(1).ev = "raise"

(***************************************************************************)
(* C16  As claimed: when the wrapped predict raises during the predict of   *)
(* a PredictionIDDecorator whose input has no prediction_id, no identifier  *)
(* is generated during the call and none is given to the caller.            *)
(***************************************************************************)
WrappedFailedWithoutId(o) ==
    /\ "prediction_id" \notin DOMAIN CallOf(o).data
          \/ CallOf(o).data.prediction_id = None
    /\ Called(objs[o].model)
    /\ EndOf(objs[o].model).ev = "raise"

NoIdentifierOnFailure ==
    \A o \in Layers("PredictionIDDecorator") :
        WrappedFailedWithoutId(o) =>
           /\ Generated(o) = {}
           /\ EndOf(o).ev = "raise"
           /\ EndOf(o).val = None

(***************************************************************************)
(* C16, amended: in that case the identifier was generated before the       *)
(* wrapped predict was called; it is given to nobody: the decorator raises  *)
(* the wrapped exception, returns nothing, and the identifier is not among  *)
(* those handed out.                                                        *)
(***************************************************************************)
NoIdentifierReportedOnFailure ==
    \A o \in Layers("PredictionIDDecorator") :
        WrappedFailedWithoutId(o) =>
           /\ Cardinality(Generated(o)) = 1
           /\ EndOf(o).ev = "raise"
           /\ EndOf(o).exc = EndOf(objs[o].model).exc
           /\ EndOf(o).val = None
           /\ \A i \in 1..Len(issued) : issued[i] \notin Generated(o)
           /\ result.out = NoData

NoIdentifierReportedOnFailureWitness ==
    /\ result.op = "predict"
    /\ result.status = "raise"
    /\ result.exc = "ValueError"
    /\ objs[result.obj].kind = "PredictionIDDecorator"
    /\ IsModel(objs[result.obj].model)
    /\ "prediction_id" \notin DOMAIN result.data
    /\ Generated(result.obj) = {uuid4(uuid)}
    /\ result.out = NoData

(***************************************************************************)
(* C17  Chain assembly order: build nests the decorators in the order of    *)
(* the list, the first-listed around the base and each next one around the  *)
(* one before it, each with the configuration of its spec, and returns the  *)
(* last-listed one, as the nesting written by hand does; a predict call on  *)
(* the returned component enters the layers from the last-listed decorator  *)
(* to the first-listed one and then the base.                               *)
(***************************************************************************)
\* The objects whose predict was entered, in the order of entry.
RECURSIVE Entered(_)
Entered(trace) ==
    IF trace = <<>> THEN <<>>
    ELSE IF Head(trace).ev = "call" THEN <<Head(trace).obj>> \o Entered(Tail(trace))
    ELSE Entered(Tail(trace))

BuildNestsInOrder ==
    (result.op = "build" /\ result.status = "return") =>
       LET specs == result.data.specs
           base == result.data.base
           n == Len(specs)
           b == Len(objs) - n
       IN /\ result.obj = (IF n = 0 THEN base ELSE Len(objs))
          /\ \A i \in 1..n :
                /\ objs[b + i].kind = specs[i].reference
                /\ objs[b + i].model = (IF i = 1 THEN base ELSE b + i - 1)
                /\ objs[b + i].configuration = specs[i].configuration
          /\ base = 1 =>
                \A data \in PredictInputs :
                    Entered(predict(Start, result.obj, data).st.trace)
                       = [k \in 1..(n + 1) |-> IF k = n + 1 THEN 1 ELSE Len(objs) + 1 - k]

BuildNestsInOrderWitness ==
    /\ result.op = "build"
    /\ result.status = "return"
    /\ result.data.base = 1
    /\ Len(result.data.specs) = 2
    /\ result.data.specs[1].reference = "PredictionIDDecorator"
    /\ result.data.specs[2].reference = "MLModelDecorator"
    /\ objs[result.obj].kind = "MLModelDecorator"
    /\ objs[result.obj].configuration = <<"option">>
    /\ objs[objs[result.obj].model].kind = "PredictionIDDecorator"
    /\ objs[objs[result.obj].model].model = 1

(***************************************************************************)
(* C18  Chain assembly is fail-fast: when a reference of the list cannot be *)
(* resolved, or the construction of a decorator fails, build fails with     *)
(* UnresolvableReference or ConstructionFailure, returns no component, and  *)
(* leaves no chain behind; it fails in no other case.                       *)
(***************************************************************************)
Unresolvable(specs) == \E i \in 1..Len(specs) : specs[i].reference \notin Decorators

\* The first decorator is given a base that is not an MLModel.
Unconstructible(base, specs) ==
    /\ base = NotAModel
    /\ specs # <<>>
    /\ specs[1].reference \in Decorators

BuildFailsFast ==
    [][result'.op = "build" =>
          LET specs == result'.data.specs
              base == result'.data.base
          IN /\ (Unresolvable(specs) \/ Unconstructible(base, specs)) <=>
                    result'.status = "raise"
             /\ result'.status = "raise" =>
                   /\ result'.obj = 0
                   /\ objs' = objs
                   /\ built' = built
                   /\ result'.exc \in {"UnresolvableReference", "ConstructionFailure"}
                   /\ result'.exc = "UnresolvableReference" => Unresolvable(specs)
                   /\ result'.exc = "ConstructionFailure" => Unconstructible(base, specs)]_vars

\* The second reference of the list is unknown: the first decorator was
\* already constructed when build failed.
BuildFailsFastWitness ==
    /\ result.op = "build"
    /\ result.status = "raise"
    /\ result.exc = "UnresolvableReference"
    /\ result.data.base = 1
    /\ Len(result.data.specs) = 2
    /\ result.data.specs[1].reference = "PredictionIDDecorator"
    /\ result.data.specs[2].reference = "NoSuchDecorator"
    /\ Len(objs) = 1
    /\ built = <<>>

(***************************************************************************)
(* C19  Chain assembly is stateless: two builds of the same list around the *)
(* same base give two chains that have no decorator in common, and whose    *)
(* properties and predict results are equal, generated identifiers aside,   *)
(* whatever was built or read before.                                       *)
(***************************************************************************)
\* The decorators of the chain under o.
ChainOf(o) == {l \in LayersUnder(o, Len(objs)) : ~IsModel(l)}

\* Two reads agree: the same string, or schema classes of the same name
\* and fields.
SameRead(a, b, prop) ==
    /\ a.status = b.status
    /\ a.exc = b.exc
    /\ a.status = "return" =>
          IF prop \in SchemaProperties
          THEN /\ a.st.classes[a.val].name = b.st.classes[b.val].name
               /\ a.st.classes[a.val].fields = b.st.classes[b.val].fields
          ELSE a.val = b.val

SamePrediction(a, b, data) ==
    /\ a.status = b.status
    /\ a.exc = b.exc
    /\ DOMAIN a.out = DOMAIN b.out
    /\ \A f \in DOMAIN a.out :
          (f # "prediction_id"
              \/ ("prediction_id" \in DOMAIN data /\ data.prediction_id # None)) =>
             a.out[f] = b.out[f]

BuildsAreIndependent ==
    \A i, j \in 1..Len(built) :
        (i < j /\ built[i].base = 1 /\ built[j].base = 1
             /\ built[i].specs = built[j].specs) =>
           /\ ChainOf(built[i].obj) \cap ChainOf(built[j].obj) = {}
           /\ Cardinality(ChainOf(built[i].obj)) = Len(built[i].specs)
           /\ Cardinality(ChainOf(built[j].obj)) = Len(built[j].specs)
           /\ \A prop \in Properties :
                 SameRead(getattr(Start, built[i].obj, prop),
                          getattr(Start, built[j].obj, prop), prop)
           /\ \A data \in PredictInputs :
                 SamePrediction(predict(Start, built[i].obj, data),
                                predict(Start, built[j].obj, data), data)

\* The same one-decorator list was built twice.
BuildsAreIndependentWitness ==
    /\ Len(built) = 2
    /\ built[1].base = 1
    /\ built[2].base = 1
    /\ built[1].specs = built[2].specs
    /\ Len(built[1].specs) = 1
    /\ built[1].obj # built[2].obj
    /\ built[1].specs[1].reference = "PredictionIDDecorator"

(***************************************************************************)
(* C20  The wrapped references form an acyclic chain: no decorator wraps    *)
(* itself, directly or through other decorators, and a construction or an   *)
(* attachment that would make one do so is rejected.                        *)
(***************************************************************************)
WrappingIsAcyclic ==
    /\ \A o \in 1..Len(objs) : ~Reaches(o, o, Len(objs))
    /\ (result.op \in {"construct", "attach"} /\ result.data.model = result.obj) =>
          result.status = "raise"

\* A decorator built without a model was given itself in the second phase:
\* __init__ accepts it, and the decorator wraps itself.
SelfWrappingAccepted ==
    /\ result.op = "attach"
    /\ result.status = "return"
    /\ result.data.model = result.obj
    /\ objs[result.obj].model = result.obj

(***************************************************************************)
(* C22  The description of a PredictionIDDecorator is the description the   *)
(* wrapped object gives at that read followed by the decorator's fixed      *)
(* clause; read through a chain that ends at the model and holds n          *)
(* PredictionIDDecorator layers, the description is the model's followed    *)
(* by the clause n times.                                                   *)
(***************************************************************************)
RECURSIVE Clauses(_)
Clauses(n) == IF n = 0 THEN "" ELSE decorator_description \o Clauses(n - 1)

DescriptionAppendsClause ==
    /\ \A i \in Reads("PredictionIDDecorator", {"description"}) :
          /\ i > 1
          /\ Trace[i - 1].obj = WrappedAt(i)
          /\ Trace[i - 1].ev = "get"
          /\ Trace[i - 1].data = "description"
          /\ Trace[i].exc = Trace[i - 1].exc
          /\ Trace[i].exc = "" => Trace[i].val = Trace[i - 1].val \o decorator_description
    /\ (result.op = "get" /\ result.prop = "description" /\ EndsAtModel(result.obj)) =>
          LET n == Cardinality({l \in ChainOf(result.obj) :
                                   objs[l].kind = "PredictionIDDecorator"})
          IN /\ result.status = "return"
             /\ result.val = ModelGet(objs[1].kind, "description") \o Clauses(n)

\* Two PredictionIDDecorators stacked on the model: the clause twice.
DescriptionAppendsClauseWitness ==
    /\ result.op = "get"
    /\ result.prop = "description"
    /\ result.obj = 3
    /\ objs[3] = [kind |-> "PredictionIDDecorator", model |-> 2, configuration |-> <<>>]
    /\ objs[2] = [kind |-> "PredictionIDDecorator", model |-> 1, configuration |-> <<>>]
    /\ result.val = ModelAttr(objs[1].kind, "description")
                        \o decorator_description \o decorator_description

(***************************************************************************)
(* C23  The keyword arguments given to a decorator's constructor are kept   *)
(* on that decorator as they were given; constructing it leaves the wrapped *)
(* object (and every other object) as it was, so nothing is forwarded to    *)
(* it; and an MLModelDecorator that holds a configuration still answers     *)
(* each of the six properties and predict exactly as the object it wraps.   *)
(***************************************************************************)
Configured(o) == objs[o].configuration # <<>>

ConfiguredBehaviour ==
    /\ \A o \in {l \in Layers("MLModelDecorator") : Configured(l)} :
          LET m == objs[o].model IN
          /\ Called(m)
          /\ CallOf(m).data = CallOf(o).data
          /\ EndOf(o) = [EndOf(m) EXCEPT !.obj = o]
    /\ \A i \in {j \in Reads("MLModelDecorator", Properties) : Configured(Trace[j].obj)} :
          /\ i > 1
          /\ Trace[i - 1].obj = WrappedAt(i)
          /\ Trace[i] = [Trace[i - 1] EXCEPT !.obj = Trace[i].obj]

ConfigurationIsFramed ==
    [][/\ (result'.op = "construct" /\ result'.status = "return") =>
            /\ objs'[result'.obj].configuration = result'.data.kwargs
            /\ objs'[result'.obj].model = result'.data.model
            /\ SubSeq(objs', 1, Len(objs)) = objs
       /\ ConfiguredBehaviour']_vars

\* A decorator built with a configuration around a decorator built without
\* one predicts what the model predicts.
ConfigurationIsFramedWitness ==
    /\ result.op = "predict"
    /\ result.status = "return"
    /\ result.obj = 3
    /\ objs[3] = [kind |-> "MLModelDecorator", model |-> 2, configuration |-> <<"option">>]
    /\ objs[2].configuration = <<>>
    /\ objs[2].model = 1
    /\ result.out = ModelPredict(objs[1].kind, result.data).out

(***************************************************************************)
(* C24  Reading a property and calling predict write nothing on any object: *)
(* every step that reads or predicts leaves each decorator's wrapped        *)
(* reference and configuration as they were, so the layers from the         *)
(* outermost decorator down to the model stay the same.                     *)
(***************************************************************************)
GraphIsImmutable ==
    [][result'.op \in {"get", "predict"} =>
          /\ objs' = objs
          /\ LayersUnder(Outermost, Len(objs))' = LayersUnder(Outermost, Len(objs))]_vars

\* predict went through a configured MLModelDecorator under a
\* PredictionIDDecorator, down to the model.
GraphIsImmutableWitness ==
    /\ result.op = "predict"
    /\ result.status = "return"
    /\ result.obj = 3
    /\ objs[3] = [kind |-> "PredictionIDDecorator", model |-> 2, configuration |-> <<>>]
    /\ objs[2] = [kind |-> "MLModelDecorator", model |-> 1, configuration |-> <<"option">>]
    /\ Called(1)

(***************************************************************************)
(* C25  Call nesting order: a SimplePredictDecorator prints its "before"    *)
(* line after it is entered and before the wrapped predict is entered, and  *)
(* its "after" line after the wrapped predict has returned and before it    *)
(* returns itself (never when the wrapped predict raised); so through       *)
(* stacked layers the "before" lines run from the outermost layer inwards,  *)
(* the "after" lines from the innermost outwards, and no "after" line       *)
(* precedes the return of the model's predict.                              *)
(***************************************************************************)
Printed(o, text) ==
    {i \in Idx : Trace[i].obj = o /\ Trace[i].ev = "print" /\ Trace[i].val = text}

CallIdx(o) == CHOOSE i \in Idx : Trace[i].obj = o /\ Trace[i].ev = "call"

EndIdx(o) == CHOOSE i \in Idx : Trace[i].obj = o /\ Trace[i].ev \in {"return", "raise"}

CallNestingOrder ==
    \A o \in Layers("SimplePredictDecorator") :
        LET m == objs[o].model
            before == Printed(o, "Executing before prediction.")
            after == Printed(o, "Executing after prediction.")
        IN /\ Called(m)
           /\ Cardinality(before) = 1
           /\ \A i \in before : CallIdx(o) < i /\ i < CallIdx(m)
           /\ Cardinality(after) = IF EndOf(m).ev = "return" THEN 1 ELSE 0
           /\ \A i \in after :
                 /\ EndIdx(m) < i /\ i < EndIdx(o)
                 /\ \E j \in 1..(i - 1) : IsModel(Trace[j].obj) /\ Trace[j].ev = "return"
           /\ \A l \in Layers("SimplePredictDecorator") \cap LayersUnder(m, Len(objs)) :
                 /\ \A i \in before :
                       \A j \in Printed(l, "Executing before prediction.") : i < j
                 /\ \A i \in after :
                       \A j \in Printed(l, "Executing after prediction.") : j < i

\* Two SimplePredictDecorators stacked on the model: before 3, before 2,
\* the model's predict, after 2, after 3.
CallNestingOrderWitness ==
    /\ result.op = "predict"
    /\ result.status = "return"
    /\ Len(Trace) = 10
    /\ objs[3].kind = "SimplePredictDecorator"
    /\ objs[2].kind = "SimplePredictDecorator"
    /\ [i \in 1..10 |-> Trace[i].obj] = <<3, 3, 2, 2, 1, 1, 2, 2, 3, 3>>
    /\ [i \in 1..10 |-> Trace[i].ev] =
          <<"call", "print", "call", "print", "call", "return",
            "print", "return", "print", "return">>
    /\ Trace[7].val = "Executing after prediction."

(***************************************************************************)
(* C26  Each predict call on a bound MLModelDecorator or                    *)
(* PredictionIDDecorator enters the wrapped object's predict exactly once,  *)
(* with the input the decorator itself received (prediction_id included);   *)
(* so one call on the outermost decorator of a chain that ends at the model *)
(* enters the model's predict exactly once, with the caller's input.        *)
(***************************************************************************)
Calls(o) == {i \in Idx : Trace[i].obj = o /\ Trace[i].ev = "call"}

SingleForwardedCall ==
    /\ \A o \in Layers("MLModelDecorator") \cup Layers("PredictionIDDecorator") :
          LET m == objs[o].model IN
          /\ Cardinality(Calls(m)) = 1
          /\ \A i \in Calls(m) : i > CallIdx(o) /\ Trace[i].data = CallOf(o).data
    /\ (result.op = "predict" /\ EndsAtModel(result.obj)) =>
          /\ Cardinality(Calls(1)) = 1
          /\ \A i \in Calls(1) : Trace[i].data = result.data

\* An input with the caller's identifier went through a
\* PredictionIDDecorator under an MLModelDecorator and reached the model
\* with the identifier still on it.
SingleForwardedCallWitness ==
    /\ result.op = "predict"
    /\ result.status = "return"
    /\ result.obj = 3
    /\ objs[3].kind = "MLModelDecorator"
    /\ objs[2].kind = "PredictionIDDecorator"
    /\ objs[2].model = 1
    /\ objs[3].model = 2
    /\ "prediction_id" \in DOMAIN result.data
    /\ result.data.prediction_id = "asdf-1234-asdf-1234"
    /\ Cardinality(Calls(1)) = 1
    /\ CallOf(1).data = result.data

(***************************************************************************)
(* C27  Contract and behaviour agree for a PredictionIDDecorator around a   *)
(* model: every input that is a valid instance of the decorator's input     *)
(* schema (prediction_id absent, None or a string) is passed to the model   *)
(* and the call ends as the model's predict ended (it is never rejected by  *)
(* the decorator), and the fields of every output the decorator returns are *)
(* exactly the fields of its output_schema as read during that call.        *)
(***************************************************************************)
\* The decorator's input schema, read before the call.
InputContract(o) ==
    LET g == getattr([classes |-> Live(classes), uuid |-> 0, trace |-> <<>>],
                     o, "input_schema")
    IN g.st.classes[g.val]

OutputReads(o) ==
    {i \in Idx : /\ Trace[i].obj = o
                 /\ Trace[i].ev = "get"
                 /\ Trace[i].data = "output_schema"
                 /\ Trace[i].exc = ""}

ContractMatchesBehaviour ==
    \A o \in {l \in Layers("PredictionIDDecorator") : IsModel(objs[l].model)} :
        LET m == objs[o].model IN
        /\ ValidKwargs(InputContract(o), CallOf(o).data) =>
              /\ Called(m)
              /\ EndOf(o).ev = EndOf(m).ev
              /\ EndOf(o).exc = EndOf(m).exc
        /\ EndOf(o).ev = "return" =>
              /\ OutputReads(o) # {}
              /\ \A i \in OutputReads(o) :
                    DOMAIN EndOf(o).val = FieldNames(classes[Trace[i].val])

\* An instance of the input schema whose prediction_id is None was
\* accepted, and the output has the fields of the output schema.
ContractMatchesBehaviourWitness ==
    /\ result.op = "predict"
    /\ result.status = "return"
    /\ result.obj = 2
    /\ objs[2].kind = "PredictionIDDecorator"
    /\ objs[2].model = 1
    /\ "prediction_id" \in DOMAIN result.data
    /\ result.data.prediction_id = None
    /\ ValidKwargs(InputContract(2), result.data)
    /\ DOMAIN result.out = {"prediction_id"} \cup FieldNames(ModelClasses(objs[1].kind)[2])

(***************************************************************************)
(* C29  Reading a decorator's input_schema or output_schema again, with     *)
(* nothing changed in between, gives a class of the same name and the same  *)
(* fields as the read before, although a PredictionIDDecorator answers each *)
(* read with a class it has just created.  (The reads compared are those    *)
(* of one operation: a predict through two PredictionIDDecorators reads the *)
(* inner decorator's output_schema twice.)                                  *)
(***************************************************************************)
SchemaReadsOf(o, prop) ==
    {i \in Idx : /\ Trace[i].obj = o
                 /\ Trace[i].ev = "get"
                 /\ Trace[i].data = prop
                 /\ Trace[i].exc = ""}

RepeatedReadsAgree ==
    \A o \in 1..Len(objs), prop \in SchemaProperties :
        \A i, j \in SchemaReadsOf(o, prop) :
            i < j =>
               /\ classes[Trace[i].val].name = classes[Trace[j].val].name
               /\ classes[Trace[i].val].fields = classes[Trace[j].val].fields
               /\ objs[o].kind = "PredictionIDDecorator" => Trace[i].val # Trace[j].val

\* The inner PredictionIDDecorator's output_schema was read twice during
\* one predict, and answered with two classes.
RepeatedReadsAgreeWitness ==
    /\ result.op = "predict"
    /\ Len(objs) = 3
    /\ objs[2].kind = "PredictionIDDecorator"
    /\ Cardinality(SchemaReadsOf(2, "output_schema")) = 2
    /\ Cardinality({Trace[i].val : i \in SchemaReadsOf(2, "output_schema")}) = 2

(***************************************************************************)
(* C28  When the base schema already has a field of the name being added,   *)
(* create_model succeeds, and the derived class has exactly one field of    *)
(* that name: the one given to create_model, not the inherited one.         *)
(***************************************************************************)
Collides(base, f) == f.name \in FieldNames(classes[base])

ExtendOverrides ==
    (result.op = "extend" /\ Collides(result.obj, result.data)) =>
       LET derived == classes[result.val]
           f == result.data
       IN /\ result.status = "return"
          /\ Cardinality({i \in 1..Len(derived.fields) : derived.fields[i].name = f.name}) = 1
          /\ FieldOf(derived, f.name) = f
          /\ Len(derived.fields) = Len(classes[result.obj].fields)

\* The base declared prediction_id as a required int; the derived class
\* has it as the optional string that was added.
ExtendOverridesWitness ==
    /\ result.op = "extend"
    /\ result.data = InputIdField
    /\ Collides(result.obj, result.data)
    /\ FieldOf(classes[result.obj], "prediction_id").type = "int"
    /\ FieldOf(classes[result.val], "prediction_id") = InputIdField

(***************************************************************************)
(* C21  Concurrent predict calls through one shared PredictionIDDecorator   *)
(* do not interfere: in every interleaving each call keeps the identifier   *)
(* of its own input, or one drawn for it that no other call in flight       *)
(* holds; a call that has ended ended as the model's predict ends for its   *)
(* own input, its output being that identifier with the model's result for  *)
(* its own input; no generated identifier is returned twice; and no step of *)
(* any call writes to an object of the chain.                               *)
(***************************************************************************)
HoldsId(c) == calls[c].pc \in {"call", "wrap", "done"}

CallIsItsOwn(c) ==
    LET f == calls[c] IN
    /\ HoldsId(c) =>
          IF HasPredictionId(f.data) THEN f.prediction_id = f.data.prediction_id
          ELSE /\ f.prediction_id \in {uuid4(n) : n \in 1..uuid}
               /\ \A d \in Callers \ {c} :
                     HoldsId(d) => calls[d].prediction_id # f.prediction_id
    /\ f.pc = "done" =>
          LET r == ModelPredict(objs[1].kind, f.data) IN
          /\ f.status = r.status
          /\ f.exc = r.exc
          /\ f.status = "return" => f.out = ("prediction_id" :> f.prediction_id) @@ r.out

ConcurrentCallsIndependent ==
    [][/\ objs' = objs
       /\ \A c \in Callers : CallIsItsOwn(c)'
       /\ \A i, j \in 1..Len(issued') : issued'[i] = issued'[j] => i = j]_vars

\* Thread t2 drew its identifier first and has not built its output yet;
\* thread t1 drew the next one, for another input, and has already
\* returned: each has the model's result for its own input.
ConcurrentCallsIndependentWitness ==
    /\ calls["t1"].pc = "done"
    /\ calls["t1"].status = "return"
    /\ calls["t2"].pc = "wrap"
    /\ calls["t1"].data = [a |-> "5"]
    /\ calls["t2"].data = [a |-> "7"]
    /\ calls["t2"].prediction_id = uuid4(1)
    /\ calls["t1"].out = [prediction_id |-> uuid4(2), b |-> "10"]
    /\ calls["t2"].prediction = [b |-> "14"]

====
